---- MODULE Spec2Model ----
(***************************************************************************)
(* A model of app.py: the eCFR snapshot analysis pipeline (text            *)
(* extraction, lexical metrics, keyword search, snapshot comparison) and   *)
(* the Flask handlers around the process-wide analysis_result slot.        *)
(*                                                                         *)
(* Text is modelled as a sequence of one-character strings, so that        *)
(* lower(), strip(), split(), count() and the regular expression are       *)
(* computed character by character as Python computes them.                *)
(***************************************************************************)
EXTENDS Integers, Sequences, FiniteSets, TLC

\* ------------------------------------------------------------------------
\* Characters and the str methods the code calls
\* ------------------------------------------------------------------------

UpperLetters == <<"A","B","C","D","E","F","G","H","I","J","K","L","M",
                  "N","O","P","Q","R","S","T","U","V","W","X","Y","Z">>

LowerLetters == <<"a","b","c","d","e","f","g","h","i","j","k","l","m",
                  "n","o","p","q","r","s","t","u","v","w","x","y","z">>

Range(s) == { s[i] : i \in DOMAIN s }

Whitespace == {" ", "\t", "\n", "\r", "\f"}

MinOf(S) == CHOOSE m \in S : \A x \in S : m <= x

MaxOf(S) == CHOOSE m \in S : \A x \in S : m >= x

\* str.lower() on one character.
LowerChar(c) ==
    IF \E i \in DOMAIN UpperLetters : UpperLetters[i] = c
    THEN LowerLetters[CHOOSE i \in DOMAIN UpperLetters : UpperLetters[i] = c]
    ELSE c

\* str.lower()
Lower(s) == [i \in 1..Len(s) |-> LowerChar(s[i])]

\* str.strip(): drop leading and trailing whitespace.
Strip(s) ==
    LET keep == { i \in 1..Len(s) : s[i] \notin Whitespace }
    IN  IF keep = {} THEN <<>> ELSE SubSeq(s, MinOf(keep), MaxOf(keep))

\* The maximal runs of the characters of s that belong to `chars`, in order.
RECURSIVE RunsFrom(_, _, _)
RunsFrom(s, i, chars) ==
    IF i > Len(s) THEN <<>>
    ELSE IF s[i] \notin chars THEN RunsFrom(s, i + 1, chars)
    ELSE LET stops == { j \in i..Len(s) : s[j] \notin chars }
             last  == IF stops = {} THEN Len(s) ELSE MinOf(stops) - 1
         IN  <<SubSeq(s, i, last)>> \o RunsFrom(s, last + 1, chars)

\* str.split() with no argument: the runs of non-whitespace characters.
SplitWhitespace(s) == RunsFrom(s, 1, Range(s) \ Whitespace)

\* re.findall(r"[a-zA-Z]+", s): the maximal runs of ASCII letters.
FindAllLetters(s) == RunsFrom(s, 1, Range(UpperLetters) \cup Range(LowerLetters))

\* Whether sub occurs in s at position i.
MatchesAt(s, sub, i) ==
    /\ i + Len(sub) - 1 <= Len(s)
    /\ \A k \in 1..Len(sub) : s[i + k - 1] = sub[k]

\* str.count(sub): the non-overlapping occurrences, scanning left to right.
RECURSIVE CountFrom(_, _, _)
CountFrom(s, sub, i) ==
    IF i > Len(s) THEN 0
    ELSE IF MatchesAt(s, sub, i) THEN 1 + CountFrom(s, sub, i + Len(sub))
    ELSE CountFrom(s, sub, i + 1)

Count(s, sub) == IF sub = <<>> THEN Len(s) + 1 ELSE CountFrom(s, sub, 1)

\* str.split(sep) for a one-character separator: empty pieces are kept.
RECURSIVE SplitOn(_, _)
SplitOn(s, sep) ==
    LET at == { i \in 1..Len(s) : s[i] = sep }
    IN  IF at = {} THEN <<s>>
        ELSE LET i == MinOf(at)
             IN  <<SubSeq(s, 1, i - 1)>> \o SplitOn(SubSeq(s, i + 1, Len(s)), sep)

\* " ".join(fragments)
RECURSIVE Join(_)
Join(fragments) ==
    IF fragments = <<>> THEN <<>>
    ELSE IF Len(fragments) = 1 THEN fragments[1]
    ELSE fragments[1] \o <<" ">> \o Join(Tail(fragments))

\* A Python dict as the sequence of its (key, value) pairs in insertion order.
DictKeys(d) == [i \in 1..Len(d) |-> d[i][1]]

DictHas(d, k) == \E i \in 1..Len(d) : d[i][1] = k

DictGet(d, k) == d[CHOOSE i \in 1..Len(d) : d[i][1] = k][2]

\* d[k] = v: a new key is appended, an existing key keeps its place.
DictSet(d, k, v) ==
    IF DictHas(d, k)
    THEN [i \in 1..Len(d) |-> IF d[i][1] = k THEN <<k, v>> ELSE d[i]]
    ELSE Append(d, <<k, v>>)

\* ------------------------------------------------------------------------
\* parse_ecfr_xml: the markup tree and its flattening
\* ------------------------------------------------------------------------

\* An lxml element: text is the text before its first child, tail the text
\* after its closing tag; <<>> stands for None (and is falsy like None).
Element(text, tail, children) ==
    [text |-> text, tail |-> tail, children |-> children]

\* root.iter(): the element and all its descendants in document order.
RECURSIVE Iter(_)
RECURSIVE IterAll(_)
Iter(elem) == <<elem>> \o IterAll(elem.children)

IterAll(elems) ==
    IF elems = <<>> THEN <<>> ELSE Iter(Head(elems)) \o IterAll(Tail(elems))

\* The loop of parse_ecfr_xml: the stripped text of every element whose
\* text is truthy.
TextFragments(root) ==
    LET elems == Iter(root)
        RECURSIVE Collect(_)
        Collect(i) ==
            IF i > Len(elems) THEN <<>>
            ELSE IF elems[i].text # <<>>
                 THEN <<Strip(elems[i].text)>> \o Collect(i + 1)
                 ELSE Collect(i + 1)
    IN  Collect(1)

parse_ecfr_xml(root) == Join(TextFragments(root))

\* ------------------------------------------------------------------------
\* analyze_ecfr_text and get_top_words
\* ------------------------------------------------------------------------

agencies_to_check ==
    << <<"N","C","P","C">>, <<"O","M","B">>, <<"O","P","M">>,
       <<"N","A","R","A">>, <<"C","I","O">> >>

stopwords ==
    { <<"t","h","e">>, <<"a","n","d">>, <<"o","f">>, <<"t","o">>, <<"i","n">>,
      <<"a">>, <<"f","o","r">>, <<"o","n">>, <<"i","s">>, <<"t","h","a","t">>,
      <<"w","i","t","h">>, <<"b","y">>, <<"a","t">>, <<"a","n">>, <<"b","e">>,
      <<"a","r","e">>, <<"a","s">>, <<"o","r">>, <<"t","h","i","s">> }

\* The n that analyze_ecfr_text passes to get_top_words.
TopN == 10

\* The filter with the length test off by one.
KeepsShortTokens(t) == t \notin stopwords /\ Len(t) > 0

\* The filter of get_top_words: [t for t in tokens if ...].
IsKeptToken(t) == t \notin stopwords /\ Len(t) > 1

\* Counter(filtered): the count of every token, keys in first-seen order.
RECURSIVE Counter(_)
Counter(filtered) ==
    IF filtered = <<>> THEN <<>>
    ELSE LET before == Counter(SubSeq(filtered, 1, Len(filtered) - 1))
             t      == filtered[Len(filtered)]
         IN  DictSet(before, t, IF DictHas(before, t) THEN DictGet(before, t) + 1 ELSE 1)

\* One step of the stable descending sort: item goes after every entry
\* whose count is at least its own.
InsertByCount(sorted, item) ==
    LET ahead == { i \in 1..Len(sorted) : sorted[i][2] >= item[2] }
        k     == IF ahead = {} THEN 0 ELSE MaxOf(ahead)
    IN  SubSeq(sorted, 1, k) \o <<item>> \o SubSeq(sorted, k + 1, Len(sorted))

RECURSIVE SortedByCount(_)
SortedByCount(items) ==
    IF items = <<>> THEN <<>>
    ELSE InsertByCount(SortedByCount(SubSeq(items, 1, Len(items) - 1)),
                       items[Len(items)])

\* Counter.most_common(n): heapq.nlargest(n, items, key=count), which is
\* sorted(items, key=count, reverse=True)[:n]; the sort is stable.
most_common(counts, n) ==
    LET sorted == SortedByCount(counts)
    IN  SubSeq(sorted, 1, IF n < Len(sorted) THEN n ELSE Len(sorted))

get_top_words(text, n) ==
    LET text_lower == Lower(text)
        tokens     == FindAllLetters(text_lower)
        filtered   == SelectSeq(tokens, IsKeptToken)
        counts     == Counter(filtered)
    IN  most_common(counts, n)

analyze_ecfr_text(text) ==
    [ word_count |-> Len(SplitWhitespace(text)),
      agencies   |-> [agency \in Range(agencies_to_check) |-> Count(text, agency)],
      top_words  |-> get_top_words(text, TopN) ]

parse_and_analyze_ecfr_xml(root) == analyze_ecfr_text(parse_ecfr_xml(root))

\* ------------------------------------------------------------------------
\* compare_two_snapshots
\* ------------------------------------------------------------------------

\* dict.get(key, default) on a dict modelled as a function.
dict_get(d, key, default) == IF key \in DOMAIN d THEN d[key] ELSE default

\* The key set taken from the first snapshot alone.
KeysOfFirstOnly(snapshot_a, snapshot_b) == DOMAIN snapshot_a.analysis.agencies

all_agencies(snapshot_a, snapshot_b) ==
    DOMAIN snapshot_a.analysis.agencies \cup DOMAIN snapshot_b.analysis.agencies

\* The difference taken the wrong way round.
AgencyChangeReversed(snapshot_a, snapshot_b, agency) ==
    dict_get(snapshot_a.analysis.agencies, agency, 0)
        - dict_get(snapshot_b.analysis.agencies, agency, 0)

agency_change(snapshot_a, snapshot_b, agency) ==
    LET old_count == dict_get(snapshot_a.analysis.agencies, agency, 0)
        new_count == dict_get(snapshot_b.analysis.agencies, agency, 0)
    IN  new_count - old_count

compare_two_snapshots(snapshot_a, snapshot_b) ==
    [ word_count_change |->
          snapshot_b.analysis.word_count - snapshot_a.analysis.word_count,
      agencies_diff |->
          [agency \in all_agencies(snapshot_a, snapshot_b) |->
              agency_change(snapshot_a, snapshot_b, agency)] ]

\* ------------------------------------------------------------------------
\* keyword_search: the keyword list and the frequency dict
\* ------------------------------------------------------------------------

\* [k.strip() for k in keywords_param.split(",") if k.strip()]
split_keywords(keywords_param) ==
    LET pieces   == SplitOn(keywords_param, ",")
        stripped == [i \in 1..Len(pieces) |-> Strip(pieces[i])]
    IN  SelectSeq(stripped, LAMBDA k : k # <<>>)

\* The frequency stored under the lowercased keyword.
LoweredKey(kw) == Lower(kw)

\* The key under which a keyword's frequency is stored: frequencies[kw].
frequency_key(kw) == kw

\* The loop that fills the frequencies dict.
RECURSIVE count_keywords(_, _)
count_keywords(text_lower, keywords_list) ==
    IF keywords_list = <<>> THEN <<>>
    ELSE LET before   == count_keywords(text_lower,
                             SubSeq(keywords_list, 1, Len(keywords_list) - 1))
             kw       == keywords_list[Len(keywords_list)]
             kw_lower == Lower(kw)
             freq     == Count(text_lower, kw_lower)
         IN  DictSet(before, frequency_key(kw), freq)

\* ------------------------------------------------------------------------
\* State
\* ------------------------------------------------------------------------

VARIABLES
    analysis_result,  \* the module-level slot of app.py
    call,             \* the request the last handler served
    requests,         \* the provider requests that handler made, in order
    response,         \* the response it returned
    lastBuilt,        \* the Snapshot the last successful analyze call built
    pc,               \* concurrent handlers: each invocation's position
    inv,              \* concurrent handlers: each invocation's request
    local,            \* concurrent handlers: each invocation's locals
    writes,           \* concurrent handlers: invocations in order of their store
    starts,           \* concurrent handlers: invocations in order of their start
    input,            \* pure functions: the arguments
    output,           \* pure functions: the value returned
    done              \* pure functions: whether the function has been applied

vars == <<analysis_result, call, requests, response, lastBuilt,
          pc, inv, local, writes, starts, input, output, done>>

serverVars == <<analysis_result, call, requests, response, lastBuilt>>

workerVars == <<pc, inv, local, writes, starts>>

pureVars == <<input, output, done>>

\* Python's None.
None == [none |-> TRUE]

\* The sequences over chars of length at most n.
SeqsUpTo(chars, n) == UNION { [1..k -> chars] : k \in 0..n }

ServerAtStart ==
    /\ analysis_result = None
    /\ call = [op |-> "none"]
    /\ requests = <<>>
    /\ response = None
    /\ lastBuilt = None

WorkersAtStart ==
    /\ pc = <<>>
    /\ inv = <<>>
    /\ local = <<>>
    /\ writes = <<>>
    /\ starts = <<>>

PureAtStart ==
    /\ input = None
    /\ output = None
    /\ done = FALSE

\* ------------------------------------------------------------------------
\* The provider and the handlers
\* ------------------------------------------------------------------------

Dates == {"2025-01-01", "2025-02-08"}

Titles == {"1", "10"}

\* A response body that etree.fromstring rejects.
Malformed == [malformed |-> TRUE]

\* <r>OMB <p>Hi</p></r> and <r><p>or OPM</p><p>CIO OPM</p>x</r>
DocA ==
    [ root |-> Element(<<"O","M","B"," ">>, <<>>,
                       << Element(<<"H","i">>, <<>>, <<>>) >>) ]

DocB ==
    [ root |-> Element(<<>>, <<>>,
                       << Element(<<"o","r"," ","O","P","M">>, <<>>, <<>>),
                          Element(<<"C","I","O"," ","O","P","M">>, <<"x">>, <<>>) >>) ]

\* What a GET may come to: no response at all (status 0), an error status,
\* or a success with a body.
Unreachable == [status |-> 0]

NotFound == [status |-> 404]

Ok(body) == [status |-> 200, body |-> body]

XmlReplies == { Unreachable, NotFound, Ok(Malformed), Ok(DocA), Ok(DocB) }

MaxVersions == 2

VersionLists == SeqsUpTo([date : Dates], MaxVersions)

VersionReplies == { Unreachable, NotFound } \cup { Ok(data) : data \in VersionLists }

FullUrl(date_str, title_num) ==
    [endpoint |-> "full", date |-> date_str, title |-> title_num]

VersionsUrl(title_num) == [endpoint |-> "versions", title |-> title_num]

\* The outcome of a call: a value returned or an exception raised.
Return(value) == [raised |-> FALSE, value |-> value]

Raise(error) == [raised |-> TRUE, error |-> error]

\* requests.get followed by raise_for_status.
get_checked(reply) ==
    IF reply.status = 0 THEN Raise("ConnectionError")
    ELSE IF reply.status >= 400 THEN Raise("HTTPError")
    ELSE Return(reply.body)

fetch_ecfr_xml(reply) == get_checked(reply)

\* The newest date taken from the end of the list, data[-1].
PicksLastVersion(reply) ==
    LET data == get_checked(reply)
    IN  IF data.raised THEN data
        ELSE IF data.value = <<>>
             THEN Raise("No version data found for this title.")
             ELSE Return(data.value[Len(data.value)].date)

fetch_latest_snapshot_date(reply) ==
    LET data == get_checked(reply)
    IN  IF data.raised THEN data
        ELSE IF data.value = <<>>
             THEN Raise("No version data found for this title.")
             ELSE Return(data.value[1].date)

\* etree.fromstring, then the analysis.
parse_and_analyze(xml_data) ==
    IF xml_data = Malformed THEN Raise("XMLSyntaxError")
    ELSE Return(parse_and_analyze_ecfr_xml(xml_data.root))

\* etree.fromstring, then the extraction alone.
parse_text(xml_data) ==
    IF xml_data = Malformed THEN Raise("XMLSyntaxError")
    ELSE Return(parse_ecfr_xml(xml_data.root))

make_snapshot(date_str, title_num, analysis_data) ==
    [date |-> date_str, title |-> title_num, analysis |-> analysis_data]

\* The dict already in the slot updated key by key, its date left behind.
UpdatesInPlace(old, snapshot) ==
    IF old = None THEN snapshot
    ELSE [old EXCEPT !.title = snapshot.title, !.analysis = snapshot.analysis]

\* analysis_result = {...}: the global name is bound to the new dict.
assign_result(old, snapshot) == snapshot

\* jsonify({"success": False, "error": str(e)}), 500
error_response(error) ==
    [status |-> 500, body |-> [success |-> FALSE, error |-> error]]

\* jsonify({"success": True, "analysisResult": analysis_result})
result_response(store) ==
    [status |-> 200, body |-> [success |-> TRUE, analysisResult |-> store]]

\* An except clause that resets the slot.
ClearsOnException(store, error, log) ==
    [analysis_result |-> None, response |-> error_response(error), requests |-> log]

\* The except clause of a handler: the slot is left as it was.
on_exception(store, error, log) ==
    [analysis_result |-> store, response |-> error_response(error), requests |-> log]

analyze(store, date_str, title_num, reply) ==
    LET log      == << [url |-> FullUrl(date_str, title_num), reply |-> reply] >>
        xml_data == fetch_ecfr_xml(reply)
    IN  IF xml_data.raised THEN on_exception(store, xml_data.error, log)
        ELSE LET analysis_data == parse_and_analyze(xml_data.value)
             IN  IF analysis_data.raised
                 THEN on_exception(store, analysis_data.error, log)
                 ELSE LET stored == assign_result(store,
                                        make_snapshot(date_str, title_num,
                                                      analysis_data.value))
                      IN  [ analysis_result |-> stored,
                            response |-> result_response(stored),
                            requests |-> log ]

latest_analyze(store, title_num, versions_reply, reply) ==
    LET first       == << [url |-> VersionsUrl(title_num), reply |-> versions_reply] >>
        latest_date == fetch_latest_snapshot_date(versions_reply)
    IN  IF latest_date.raised THEN on_exception(store, latest_date.error, first)
        ELSE LET log == Append(first, [url |-> FullUrl(latest_date.value, title_num),
                                       reply |-> reply])
                 xml_data == fetch_ecfr_xml(reply)
             IN  IF xml_data.raised THEN on_exception(store, xml_data.error, log)
                 ELSE LET analysis_data == parse_and_analyze(xml_data.value)
                      IN  IF analysis_data.raised
                          THEN on_exception(store, analysis_data.error, log)
                          ELSE LET stored == assign_result(store,
                                                 make_snapshot(latest_date.value, title_num,
                                                               analysis_data.value))
                               IN  [ analysis_result |-> stored,
                                     response |-> result_response(stored),
                                     requests |-> log ]

\* results without its test for None.
ResultsIgnoresEmpty(store) == result_response(store)

results(store) ==
    IF store = None
    THEN [ status |-> 404,
           body |-> [ success |-> FALSE,
                      message |-> "No results yet-please run /analyze or /latest_analyze" ] ]
    ELSE result_response(store)

\* compare with its second Snapshot also put in the slot.
CompareStoresSecond(store, date1, date2, title_num, reply_a, reply_b) ==
    LET log_a == << [url |-> FullUrl(date1, title_num), reply |-> reply_a] >>
        log_b == Append(log_a, [url |-> FullUrl(date2, title_num), reply |-> reply_b])
        xml_a == fetch_ecfr_xml(reply_a)
    IN  IF xml_a.raised THEN on_exception(store, xml_a.error, log_a)
        ELSE LET analysis_a == parse_and_analyze(xml_a.value)
             IN  IF analysis_a.raised THEN on_exception(store, analysis_a.error, log_a)
                 ELSE LET snapshot_a == make_snapshot(date1, title_num, analysis_a.value)
                          xml_b      == fetch_ecfr_xml(reply_b)
                      IN  IF xml_b.raised THEN on_exception(store, xml_b.error, log_b)
                          ELSE LET analysis_b == parse_and_analyze(xml_b.value)
                               IN  IF analysis_b.raised
                                   THEN on_exception(store, analysis_b.error, log_b)
                                   ELSE LET snapshot_b ==
                                                make_snapshot(date2, title_num,
                                                              analysis_b.value)
                                        IN  [ analysis_result |-> snapshot_b,
                                              response |->
                                                [ status |-> 200,
                                                  body |->
                                                    [ success |-> TRUE,
                                                      snapshotA |-> snapshot_a,
                                                      snapshotB |-> snapshot_b,
                                                      comparison |->
                                                        compare_two_snapshots(
                                                            snapshot_a, snapshot_b) ] ],
                                              requests |-> log_b ]

compare(store, date1, date2, title_num, reply_a, reply_b) ==
    LET log_a == << [url |-> FullUrl(date1, title_num), reply |-> reply_a] >>
        log_b == Append(log_a, [url |-> FullUrl(date2, title_num), reply |-> reply_b])
        xml_a == fetch_ecfr_xml(reply_a)
    IN  IF xml_a.raised THEN on_exception(store, xml_a.error, log_a)
        ELSE LET analysis_a == parse_and_analyze(xml_a.value)
             IN  IF analysis_a.raised THEN on_exception(store, analysis_a.error, log_a)
                 ELSE LET snapshot_a == make_snapshot(date1, title_num, analysis_a.value)
                          xml_b      == fetch_ecfr_xml(reply_b)
                      IN  IF xml_b.raised THEN on_exception(store, xml_b.error, log_b)
                          ELSE LET analysis_b == parse_and_analyze(xml_b.value)
                               IN  IF analysis_b.raised
                                   THEN on_exception(store, analysis_b.error, log_b)
                                   ELSE LET snapshot_b ==
                                                make_snapshot(date2, title_num,
                                                              analysis_b.value)
                                        IN  [ analysis_result |-> store,
                                              response |->
                                                [ status |-> 200,
                                                  body |->
                                                    [ success |-> TRUE,
                                                      snapshotA |-> snapshot_a,
                                                      snapshotB |-> snapshot_b,
                                                      comparison |->
                                                        compare_two_snapshots(
                                                            snapshot_a, snapshot_b) ] ],
                                              requests |-> log_b ]

keyword_search(store, date_str, title_num, keywords_param, reply) ==
    LET keywords_list == split_keywords(keywords_param)
        log           == << [url |-> FullUrl(date_str, title_num), reply |-> reply] >>
        xml_data      == fetch_ecfr_xml(reply)
    IN  IF xml_data.raised THEN on_exception(store, xml_data.error, log)
        ELSE LET text_data == parse_text(xml_data.value)
             IN  IF text_data.raised THEN on_exception(store, text_data.error, log)
                 ELSE [ analysis_result |-> store,
                        response |->
                          [ status |-> 200,
                            body |->
                              [ success |-> TRUE,
                                date |-> date_str,
                                title |-> title_num,
                                keywords |-> keywords_list,
                                frequencies |->
                                  count_keywords(Lower(text_data.value), keywords_list) ] ],
                        requests |-> log ]

\* ------------------------------------------------------------------------
\* The handlers called one at a time
\* ------------------------------------------------------------------------

KeywordParams == { <<>>, <<"o","m","b">>, <<"O","P","M",","," ","h","i">> }

NoCall == [op |-> "none"]

Init ==
    /\ analysis_result = None
    /\ call = NoCall
    /\ requests = <<>>
    /\ response = None
    /\ lastBuilt = None
    /\ WorkersAtStart
    /\ PureAtStart

\* The handler's outcome r becomes the next state; built is the Snapshot the
\* last successful analyze or latest_analyze call built, after this call.
Served(r, request, built) ==
    /\ analysis_result' = r.analysis_result
    /\ call' = request
    /\ requests' = r.requests
    /\ response' = r.response
    /\ lastBuilt' = built
    /\ UNCHANGED <<workerVars, pureVars>>

Analyze ==
    \E date_str \in Dates, title_num \in Titles, reply \in XmlReplies :
        LET r == analyze(analysis_result, date_str, title_num, reply)
        IN  Served(r, [op |-> "analyze", date |-> date_str, title |-> title_num],
                   IF r.response.body.success
                   THEN make_snapshot(date_str, title_num,
                                      parse_and_analyze(reply.body).value)
                   ELSE lastBuilt)

LatestAnalyze ==
    \E title_num \in Titles, versions_reply \in VersionReplies, reply \in XmlReplies :
        LET r == latest_analyze(analysis_result, title_num, versions_reply, reply)
        IN  Served(r, [op |-> "latest_analyze", title |-> title_num],
                   IF r.response.body.success
                   THEN make_snapshot(r.requests[2].url.date, title_num,
                                      parse_and_analyze(reply.body).value)
                   ELSE lastBuilt)

Compare ==
    \E date1 \in Dates, date2 \in Dates, title_num \in Titles,
       reply_a \in XmlReplies, reply_b \in XmlReplies :
        LET r == compare(analysis_result, date1, date2, title_num, reply_a, reply_b)
        IN  Served(r, [op |-> "compare", date1 |-> date1, date2 |-> date2,
                       title |-> title_num], lastBuilt)

KeywordSearch ==
    \E date_str \in Dates, title_num \in Titles,
       keywords_param \in KeywordParams, reply \in XmlReplies :
        LET r == keyword_search(analysis_result, date_str, title_num,
                                keywords_param, reply)
        IN  Served(r, [op |-> "keyword_search", date |-> date_str,
                       title |-> title_num, keywords |-> keywords_param], lastBuilt)

Results ==
    /\ analysis_result' = analysis_result
    /\ call' = [op |-> "results"]
    /\ requests' = <<>>
    /\ response' = results(analysis_result)
    /\ UNCHANGED <<lastBuilt, workerVars, pureVars>>

Next == Analyze \/ LatestAnalyze \/ Compare \/ KeywordSearch \/ Results

Spec == Init /\ [][Next]_vars

\* ------------------------------------------------------------------------
\* The storing handlers run concurrently, one thread per request
\* ------------------------------------------------------------------------

NumInvocations == 2

Invocations == 1..NumInvocations

\* Every invocation asks for the default title.
ConcTitles == {"1"}

NoLocals == [date |-> "", analysis_data |-> None, response |-> None]

InitConc ==
    /\ ServerAtStart
    /\ PureAtStart
    /\ pc = [i \in Invocations |-> "idle"]
    /\ inv = [i \in Invocations |-> NoCall]
    /\ local = [i \in Invocations |-> NoLocals]
    /\ writes = <<>>
    /\ starts = <<>>

\* The handler raised: its except clause answers, the slot is not touched.
Failed(i, error) ==
    /\ pc' = [pc EXCEPT ![i] = "done"]
    /\ local' = [local EXCEPT ![i].response = on_exception(analysis_result, error, <<>>).response]

\* analyze reads its parameters.
BeginAnalyze(i) ==
    /\ pc[i] = "idle"
    /\ \E date_str \in Dates, title_num \in ConcTitles :
          /\ inv' = [inv EXCEPT ![i] = [op |-> "analyze", date |-> date_str,
                                         title |-> title_num]]
          /\ local' = [local EXCEPT ![i].date = date_str]
    /\ pc' = [pc EXCEPT ![i] = "fetch"]
    /\ starts' = Append(starts, i)
    /\ UNCHANGED <<serverVars, writes, pureVars>>

\* latest_analyze reads its parameter.
BeginLatest(i) ==
    /\ pc[i] = "idle"
    /\ \E title_num \in ConcTitles :
          inv' = [inv EXCEPT ![i] = [op |-> "latest_analyze", title |-> title_num]]
    /\ pc' = [pc EXCEPT ![i] = "versions"]
    /\ starts' = Append(starts, i)
    /\ UNCHANGED <<serverVars, local, writes, pureVars>>

\* latest_date = fetch_latest_snapshot_date(title_num)
FetchVersions(i) ==
    /\ pc[i] = "versions"
    /\ \E reply \in VersionReplies :
          LET latest_date == fetch_latest_snapshot_date(reply)
          IN  IF latest_date.raised THEN Failed(i, latest_date.error)
              ELSE /\ local' = [local EXCEPT ![i].date = latest_date.value]
                   /\ pc' = [pc EXCEPT ![i] = "fetch"]
    /\ UNCHANGED <<serverVars, inv, writes, starts, pureVars>>

\* xml_data = fetch_ecfr_xml(date, title_num), then
\* analysis_data = parse_and_analyze_ecfr_xml(xml_data), which touches
\* nothing but the handler's locals.
FetchAndAnalyze(i) ==
    /\ pc[i] = "fetch"
    /\ \E reply \in XmlReplies :
          LET xml_data == fetch_ecfr_xml(reply)
          IN  IF xml_data.raised THEN Failed(i, xml_data.error)
              ELSE LET analysis_data == parse_and_analyze(xml_data.value)
                   IN  IF analysis_data.raised THEN Failed(i, analysis_data.error)
                       ELSE /\ local' = [local EXCEPT ![i].analysis_data =
                                                          analysis_data.value]
                            /\ pc' = [pc EXCEPT ![i] = "store"]
    /\ UNCHANGED <<serverVars, inv, writes, starts, pureVars>>

\* analysis_result = {...}: one store to the global name.
Store(i) ==
    /\ pc[i] = "store"
    /\ analysis_result' =
          assign_result(analysis_result,
                        make_snapshot(local[i].date, inv[i].title, local[i].analysis_data))
    /\ writes' = Append(writes, i)
    /\ pc' = [pc EXCEPT ![i] = "respond"]
    /\ UNCHANGED <<call, requests, response, lastBuilt, inv, local, starts, pureVars>>

\* return jsonify(... analysis_result): the global name is read again.
Respond(i) ==
    /\ pc[i] = "respond"
    /\ local' = [local EXCEPT ![i].response = result_response(analysis_result)]
    /\ pc' = [pc EXCEPT ![i] = "done"]
    /\ UNCHANGED <<serverVars, inv, writes, starts, pureVars>>

NextConc ==
    \E i \in Invocations :
        \/ BeginAnalyze(i)
        \/ BeginLatest(i)
        \/ FetchVersions(i)
        \/ FetchAndAnalyze(i)
        \/ Store(i)
        \/ Respond(i)

SpecConc == InitConc /\ [][NextConc]_vars

\* ------------------------------------------------------------------------
\* get_top_words on every short text
\* ------------------------------------------------------------------------

MaxTextLen == 8

MaxN == 2

\* A letter, an upper-case letter and a non-letter; "or" is a stopword.
TopChars == {"o", "R", "-"}

InitTop ==
    /\ ServerAtStart
    /\ WorkersAtStart
    /\ input \in [text : SeqsUpTo(TopChars, MaxTextLen), n : 0..MaxN]
    /\ output = None
    /\ done = FALSE

ApplyTopWords ==
    /\ ~done
    /\ output' = get_top_words(input.text, input.n)
    /\ done' = TRUE
    /\ UNCHANGED <<input, serverVars, workerVars>>

NextTop == ApplyTopWords

SpecTop == InitTop /\ [][NextTop]_vars

\* ------------------------------------------------------------------------
\* compare_two_snapshots on every pair of small Snapshots
\* ------------------------------------------------------------------------

MaxKeys == 2

MaxCount == 1

MaxWordCount == 1

CmpDates == {"2022-01-01", "2023-01-01"}

CmpCodes == { agencies_to_check[i] : i \in 1..MaxKeys }

CmpAgencies == UNION { [keys -> 0..MaxCount] : keys \in SUBSET CmpCodes }

CmpSnapshots ==
    [ date : CmpDates, title : {"1"},
      analysis : [ word_count : 0..MaxWordCount, agencies : CmpAgencies,
                   top_words : {<<>>} ] ]

InitCmp ==
    /\ ServerAtStart
    /\ WorkersAtStart
    /\ input \in [a : CmpSnapshots, b : CmpSnapshots]
    /\ output = None
    /\ done = FALSE

ApplyCompare ==
    /\ ~done
    /\ output' = [ ab |-> compare_two_snapshots(input.a, input.b),
                   ba |-> compare_two_snapshots(input.b, input.a),
                   aa |-> compare_two_snapshots(input.a, input.a) ]
    /\ done' = TRUE
    /\ UNCHANGED <<input, serverVars, workerVars>>

NextCmp == ApplyCompare

SpecCmp == InitCmp /\ [][NextCmp]_vars

\* ------------------------------------------------------------------------
\* The keyword list and frequency dict on every short keywords parameter
\* ------------------------------------------------------------------------

MaxParamLen == 5

KwChars == {"a", "A", ",", " "}

KwTexts == { <<>>, <<"A","a">>, <<"b","a","A","a">> }

InitKw ==
    /\ ServerAtStart
    /\ WorkersAtStart
    /\ input \in [text_data : KwTexts, keywords_param : SeqsUpTo(KwChars, MaxParamLen)]
    /\ output = None
    /\ done = FALSE

ApplyKeywords ==
    /\ ~done
    /\ LET keywords_list == split_keywords(input.keywords_param)
           text_lower    == Lower(input.text_data)
       IN  output' = [ keywords    |-> keywords_list,
                       frequencies |-> count_keywords(text_lower, keywords_list) ]
    /\ done' = TRUE
    /\ UNCHANGED <<input, serverVars, workerVars>>

NextKw == ApplyKeywords

SpecKw == InitKw /\ [][NextKw]_vars

\* ------------------------------------------------------------------------
\* parse_ecfr_xml on every small markup tree
\* ------------------------------------------------------------------------

XmlTexts == { <<>>, <<"H","i">>, <<" ","W"," ">>, <<"\n">> }

XmlTails == { <<>>, <<"t">> }

XmlLeaves == { Element(t, tl, <<>>) : t \in XmlTexts, tl \in XmlTails }

XmlInner ==
    XmlLeaves \cup
    { Element(t, tl, <<c>>) : t \in XmlTexts, tl \in XmlTails, c \in XmlLeaves }

\* The root element of a parsed document has no tail.
XmlRoots ==
    { Element(t, <<>>, <<>>) : t \in XmlTexts } \cup
    { Element(t, <<>>, <<c>>) : t \in XmlTexts, c \in XmlInner } \cup
    { Element(t, <<>>, <<c, d>>) : t \in XmlTexts, c \in XmlInner, d \in XmlLeaves }

InitXml ==
    /\ ServerAtStart
    /\ WorkersAtStart
    /\ input \in [root : XmlRoots]
    /\ output = None
    /\ done = FALSE

ApplyParse ==
    /\ ~done
    /\ output' = parse_ecfr_xml(input.root)
    /\ done' = TRUE
    /\ UNCHANGED <<input, serverVars, workerVars>>

NextXml == ApplyParse

SpecXml == InitXml /\ [][NextXml]_vars

\* ------------------------------------------------------------------------
\* Properties of the pure functions
\* ------------------------------------------------------------------------

IsLetter(c) == c \in Range(UpperLetters) \cup Range(LowerLetters)

\* Whether text[i..j] is a maximal run of letters.
IsTokenAt(text, i, j) ==
    /\ 1 <= i /\ i <= j /\ j <= Len(text)
    /\ \A k \in i..j : IsLetter(text[k])
    /\ i = 1 \/ ~IsLetter(text[i - 1])
    /\ j = Len(text) \/ ~IsLetter(text[j + 1])

\* Where the word w occurs in text as a whole token, whatever its case.
TokenPositions(text, w) ==
    { i \in 1..Len(text) :
        /\ IsTokenAt(text, i, i + Len(w) - 1)
        /\ Lower(SubSeq(text, i, i + Len(w) - 1)) = w }

\* A word that get_top_words may report.
IsCountable(w) ==
    /\ Len(w) > 1
    /\ \A k \in 1..Len(w) : w[k] \in Range(LowerLetters)
    /\ w \notin stopwords

\* The countable words that occur in text as whole tokens.
CountableWords(text) ==
    { w \in { Lower(SubSeq(text, i, j)) : i \in 1..Len(text), j \in 1..Len(text) } :
        IsCountable(w) /\ TokenPositions(text, w) # {} }

\* C7: top_words has at most N entries; every word is lowercase, letters
\* only, longer than one character and no stopword; its count is the number
\* of its occurrences among the tokens; counts never increase along the
\* sequence; equal counts keep the order of first occurrence; and no word
\* left out has a higher count than a word that is in.
C7_TopWords ==
    done =>
        LET top  == output
            text == input.text
        IN  /\ Len(top) <= input.n
            /\ \A i \in 1..Len(top) :
                  /\ IsCountable(top[i][1])
                  /\ top[i][2] = Cardinality(TokenPositions(text, top[i][1]))
            /\ \A i, j \in 1..Len(top) :
                  i < j =>
                      /\ top[i][2] >= top[j][2]
                      /\ top[i][2] = top[j][2] =>
                            MinOf(TokenPositions(text, top[i][1]))
                                < MinOf(TokenPositions(text, top[j][1]))
            /\ \A w \in CountableWords(text) :
                  (\A i \in 1..Len(top) : top[i][1] # w) =>
                      \A i \in 1..Len(top) :
                          Cardinality(TokenPositions(text, w)) <= top[i][2]

\* Two words tie, a third is left out, and the text has an upper-case letter.
C7_Witness ==
    /\ done
    /\ input.n = 2
    /\ Len(output) = 2
    /\ output[1][2] = output[2][2]
    /\ "R" \in Range(input.text)
    /\ \E w \in CountableWords(input.text) : \A i \in 1..2 : output[i][1] # w

\* C4: compare(a, b) is the field-by-field negation of compare(b, a): the
\* same agency keys, opposite word_count_change, opposite agencies_diff at
\* every key; and compare(a, a) is all zeros.
C4_Antisymmetric ==
    done =>
        /\ DOMAIN output.ab.agencies_diff = DOMAIN output.ba.agencies_diff
        /\ output.ab.word_count_change = 0 - output.ba.word_count_change
        /\ \A c \in DOMAIN output.ab.agencies_diff :
              output.ab.agencies_diff[c] = 0 - output.ba.agencies_diff[c]
        /\ output.aa.word_count_change = 0
        /\ \A c \in DOMAIN output.aa.agencies_diff : output.aa.agencies_diff[c] = 0

\* The two snapshots have different agency keys and a nonzero difference.
C4_Witness ==
    /\ done
    /\ DOMAIN input.a.analysis.agencies # DOMAIN input.b.analysis.agencies
    /\ output.ab.word_count_change < 0
    /\ \E c \in DOMAIN output.ab.agencies_diff : output.ab.agencies_diff[c] > 0

\* C5: word_count_change is b's word count minus a's; the keys of
\* agencies_diff are the union of both snapshots' agency keys; each value is
\* b's count minus a's, a missing code counting as 0; the result holds
\* nothing else (no top words).
C5_Difference ==
    done =>
        LET a == input.a.analysis
            b == input.b.analysis
            d == output.ab
        IN  /\ DOMAIN d = {"word_count_change", "agencies_diff"}
            /\ d.word_count_change = b.word_count - a.word_count
            /\ DOMAIN d.agencies_diff = DOMAIN a.agencies \cup DOMAIN b.agencies
            /\ \A c \in DOMAIN a.agencies \cap DOMAIN b.agencies :
                  d.agencies_diff[c] = b.agencies[c] - a.agencies[c]
            /\ \A c \in DOMAIN a.agencies \ DOMAIN b.agencies :
                  d.agencies_diff[c] = 0 - a.agencies[c]
            /\ \A c \in DOMAIN b.agencies \ DOMAIN a.agencies :
                  d.agencies_diff[c] = b.agencies[c]

\* Each snapshot has a code the other lacks, with a nonzero count.
C5_Witness ==
    /\ done
    /\ \E c \in DOMAIN input.a.analysis.agencies \ DOMAIN input.b.analysis.agencies :
          output.ab.agencies_diff[c] < 0
    /\ \E c \in DOMAIN input.b.analysis.agencies \ DOMAIN input.a.analysis.agencies :
          output.ab.agencies_diff[c] > 0
    /\ output.ab.word_count_change > 0

\* The pieces of keywords_param between commas that hold a non-blank
\* character, stripped, in order.
NonBlankPieces(keywords_param) ==
    LET runs == RunsFrom(keywords_param, 1, Range(keywords_param) \ {","})
    IN  SelectSeq([i \in 1..Len(runs) |-> Strip(runs[i])], LAMBDA k : k # <<>>)

FirstIndex(s, x) == MinOf({ i \in 1..Len(s) : s[i] = x })

\* C6 as stated: the frequencies have one entry per keyword of the trimmed,
\* empty-filtered list, in input order, so a repeated keyword has an entry
\* for each repetition.
C6_EntryPerKeyword ==
    done =>
        /\ Len(output.frequencies) = Len(output.keywords)
        /\ \A i \in 1..Len(output.keywords) :
              output.frequencies[i][1] = output.keywords[i]

\* C6 amended: the keywords list has one entry per trimmed, non-empty
\* keyword, in input order, repetitions included; the frequencies have one
\* entry per distinct literal keyword, in order of first occurrence, so a
\* repeated keyword shares one entry while keywords that differ only by case
\* have an entry each, and every entry holds the count of the lowercased
\* keyword in the lowercased text.
C6_EntryPerDistinctKeyword ==
    done =>
        LET kws  == output.keywords
            freq == output.frequencies
        IN  /\ kws = NonBlankPieces(input.keywords_param)
            /\ Range(DictKeys(freq)) = Range(kws)
            /\ Len(freq) = Cardinality(Range(kws))
            /\ \A i, j \in 1..Len(freq) :
                  i < j => FirstIndex(kws, freq[i][1]) < FirstIndex(kws, freq[j][1])
            /\ \A i \in 1..Len(freq) :
                  freq[i][2] = Count(Lower(input.text_data), Lower(freq[i][1]))

\* A keyword is repeated and another differs from it only by case.
C6_Witness ==
    /\ done
    /\ output.keywords = << <<"a">>, <<"A">>, <<"a">> >>
    /\ output.frequencies = << << <<"a">>, 3 >>, << <<"A">>, 3 >> >>

\* The character data of the document: every element's text and tail.
CharacterData(root) ==
    LET elems == Iter(root)
    IN  { elems[i].text : i \in 1..Len(elems) } \cup { elems[i].tail : i \in 1..Len(elems) }

\* C8: all text of the document appears in the extracted text, trimmed,
\* whatever its nesting depth.
C8_AllTextExtracted ==
    done =>
        \A piece \in CharacterData(input.root) :
            Strip(piece) # <<>> => Count(output, Strip(piece)) > 0

\* ------------------------------------------------------------------------
\* Properties of the handlers called one at a time
\* ------------------------------------------------------------------------

StoringOps == {"analyze", "latest_analyze"}

ReadingOps == {"compare", "keyword_search", "results"}

\* C1: results returns the Snapshot built by the most recent successful
\* analyze or latest_analyze call, and signals "no result yet" exactly when
\* no such call has succeeded; a slot that holds a Snapshot is never empty
\* again.
C1_ResultsReturnsLatest ==
    /\ [](call.op = "results" =>
            IF lastBuilt = None
            THEN response.status = 404 /\ ~response.body.success
                 /\ DOMAIN response.body = {"success", "message"}
            ELSE response.status = 200 /\ response.body.success
                 /\ response.body.analysisResult = lastBuilt)
    /\ [][analysis_result # None => analysis_result' # None]_vars

\* results answers with the Snapshot of a successful analysis.
C1_Witness ==
    /\ call.op = "results"
    /\ response.body.success
    /\ response.body.analysisResult.date = "2025-02-08"
    /\ response.body.analysisResult.title = "10"
    /\ response.body.analysisResult.analysis.word_count = 4

\* C2: a failing analyze or latest_analyze returns an error with a message
\* and nothing else, and leaves the slot as it was.
C2_FailureLeavesStore ==
    [][ (call'.op \in StoringOps /\ ~response'.body.success) =>
            /\ analysis_result' = analysis_result
            /\ DOMAIN response'.body = {"success", "error"}
            /\ response'.body.error \in
                  { "ConnectionError", "HTTPError", "XMLSyntaxError",
                    "No version data found for this title." } ]_vars

\* latest_analyze fails on an empty version list while a Snapshot is stored.
C2_Witness ==
    /\ call.op = "latest_analyze"
    /\ ~response.body.success
    /\ response.body.error = "No version data found for this title."
    /\ analysis_result # None

C10_ReadersLeaveStore ==
    [][ call'.op \in ReadingOps =>
            /\ analysis_result' = analysis_result
            /\ results(analysis_result') = results(analysis_result) ]_vars

\* compare succeeds on two fresh Snapshots while another one is stored.
C10_Witness ==
    /\ call.op = "compare"
    /\ response.body.success
    /\ analysis_result # None
    /\ analysis_result # response.body.snapshotA
    /\ analysis_result # response.body.snapshotB

\* ------------------------------------------------------------------------
\* Properties of the concurrent handlers
\* ------------------------------------------------------------------------

\* The Snapshot invocation i builds from its own locals.
BuiltBy(i) == make_snapshot(local[i].date, inv[i].title, local[i].analysis_data)

\* C3: under any interleaving the slot is empty or holds the whole Snapshot
\* of one invocation that has stored, never a mix of two, and it holds the
\* Snapshot of the invocation that stored last, whatever the order in which
\* the invocations started.
C3_LastWriterWins ==
    /\ analysis_result = None \/ \E k \in 1..Len(writes) : analysis_result = BuiltBy(writes[k])
    /\ writes = <<>> => analysis_result = None
    /\ writes # <<>> => analysis_result = BuiltBy(writes[Len(writes)])

\* Two invocations have finished; the one that started first stored last,
\* and the two Snapshots differ in date and analysis.
C3_Witness ==
    /\ \A i \in Invocations : pc[i] \in {"idle", "done"}
    /\ Len(writes) = 2
    /\ writes[2] = starts[1]
    /\ BuiltBy(writes[1]).date # BuiltBy(writes[2]).date
    /\ BuiltBy(writes[1]).analysis # BuiltBy(writes[2]).analysis

====
